---- MODULE Spec2Model ----
(***************************************************************************)
(* Model of src/load.rs of kl-hyphenate: the Load trait (from_path,        *)
(* from_reader, any_from_reader), its two implementations generated by    *)
(* impl_load! for Standard and Extended, and the Error type with its      *)
(* source() and From conversions.                                         *)
(*                                                                         *)
(* A byte stream is kept run-length encoded (a sequence of runs            *)
(* [b |-> byte, n |-> count], canonical: no empty run, no two adjacent     *)
(* runs of the same byte) so that payloads around the 5,000,000 byte       *)
(* ceiling can be enumerated.  The decoder is bincode 1.x as configured on *)
(* line 74: little-endian fixed-width integers, a u32 enum variant index,  *)
(* a u64 length prefix, a byte budget charged before every read.          *)
(***************************************************************************)
EXTENDS Integers, Sequences, FiniteSets, TLC

(* ---------------------------- bounds ---------------------------------- *)
\* number of Language tags enumerated (indices 0 .. NumLanguages-1)
NumLanguages == 3
\* small dictionary bodies have at most this many bytes
MaxSmallLen == 2
\* payload sizes enumerated around the ceiling: Limit-Slack .. Limit+Slack
Slack == 1

(* ------------------------- program constants -------------------------- *)
\* bin::config().limit(5_000_000)
Limit == 5000000
\* bincode writes an enum variant index as a u32
TagWidth == 4
\* bincode writes a sequence length as a u64
LenWidth == 8

Languages == 0 .. (NumLanguages - 1)
Variants == {"Standard", "Extended"}
None == [some |-> FALSE]
Some(x) == [some |-> TRUE, val |-> x]

(* ------------------------ run-length byte strings --------------------- *)
Run(b, n) == IF n = 0 THEN <<>> ELSE <<[b |-> b, n |-> n]>>

RECURSIVE BLen(_)
BLen(s) == IF s = <<>> THEN 0 ELSE Head(s).n + BLen(Tail(s))

BCat(s, t) ==
  IF s = <<>> THEN t
  ELSE IF t = <<>> THEN s
  ELSE IF s[Len(s)].b = Head(t).b
       THEN SubSeq(s, 1, Len(s) - 1)
            \o <<[b |-> Head(t).b, n |-> s[Len(s)].n + Head(t).n]>>
            \o Tail(t)
       ELSE s \o t

RECURSIVE BTake(_, _)
BTake(s, k) ==
  IF k = 0 \/ s = <<>> THEN <<>>
  ELSE IF Head(s).n <= k
       THEN <<Head(s)>> \o BTake(Tail(s), k - Head(s).n)
       ELSE <<[b |-> Head(s).b, n |-> k]>>

RECURSIVE BDrop(_, _)
BDrop(s, k) ==
  IF k = 0 \/ s = <<>> THEN s
  ELSE IF Head(s).n <= k
       THEN BDrop(Tail(s), k - Head(s).n)
       ELSE <<[b |-> Head(s).b, n |-> Head(s).n - k]>> \o Tail(s)

BSlice(s, pos, k) == BTake(BDrop(s, pos), k)

\* byte at 0-based index i (i < BLen(s))
RECURSIVE BAt(_, _)
BAt(s, i) == IF i < Head(s).n THEN Head(s).b ELSE BAt(Tail(s), i - Head(s).n)

RECURSIVE BFromSeq(_)
BFromSeq(q) == IF q = <<>> THEN <<>> ELSE BCat(Run(Head(q), 1), BFromSeq(Tail(q)))

(* --------------------- fixed-width little-endian integers ------------- *)
\* Values of 2^24 or more are all reported as Saturated: every such value
\* is beyond both Limit and the largest variant index, and a u64 does not
\* fit TLC's 32-bit integers.
Saturated == 256 * 65536

RECURSIVE LEByte(_, _)
LEByte(n, i) == IF i = 0 THEN n % 256 ELSE LEByte(n \div 256, i - 1)

\* serialize an integer n < 2^31 on w bytes, least significant byte first
LEBytes(n, w) == BFromSeq([i \in 1 .. w |-> LEByte(n, i - 1)])

\* a variant decoder that takes the most significant byte first
BEValue(s, w) ==
  IF \E i \in 0 .. (w - 4) : BAt(s, i) # 0 THEN Saturated
  ELSE BAt(s, w - 1) + 256 * BAt(s, w - 2) + 65536 * BAt(s, w - 3)

\* read back an integer from w >= 3 bytes, least significant byte first
LEValue(s, w) ==
  IF \E i \in 3 .. (w - 1) : BAt(s, i) # 0 THEN Saturated
  ELSE BAt(s, 0) + 256 * BAt(s, 1) + 65536 * BAt(s, 2)

(* ------------------------------ errors -------------------------------- *)
\* std::io::Error, by kind
IoError(kind) == [type |-> "io::Error", kind |-> kind]
\* kinds File::open can fail with
OpenErrorKinds == {"NotFound", "PermissionDenied"}
\* kinds a stream's read can fail with (Interrupted is retried by read_exact)
ReadErrorKinds == {"BrokenPipe", "Other"}

\* bincode::Error = Box<ErrorKind>
BinIo(e) == [type |-> "bin::Error", kind |-> "Io", io |-> e]
BinSizeLimit == [type |-> "bin::Error", kind |-> "SizeLimit", io |-> None]
BinCustom == [type |-> "bin::Error", kind |-> "Custom", io |-> None]

\* enum Error
Deserialization(e) ==
  [kind |-> "Deserialization", cause |-> e, expected |-> None, found |-> None]
IO(e) == [kind |-> "IO", cause |-> e, expected |-> None, found |-> None]
LanguageMismatch(expected, found) ==
  [kind |-> "LanguageMismatch", cause |-> None,
   expected |-> Some(expected), found |-> Some(found)]
Resource == [kind |-> "Resource", cause |-> None, expected |-> None, found |-> None]

Ok(v) == [ok |-> TRUE, val |-> v]
Err(e) == [ok |-> FALSE, err |-> e]

\* a source() that forgets the cause of an IO error
source_NoIO(e) ==
  IF e.kind = "Deserialization" THEN Some(e.cause) ELSE None

\* impl error::Error for Error :: source
source(e) ==
  IF e.kind = "Deserialization" THEN Some(e.cause)
  ELSE IF e.kind = "IO" THEN Some(e.cause)
  ELSE None

\* impl From<io::Error> for Error
From_io_Error(err) == IO(err)

\* a conversion that reports the decoder's read failures as Error::IO
From_bin_Error_SplitIo(err) ==
  IF err.kind = "Io" THEN IO(err.io) ELSE Deserialization(err)

\* impl From<bin::Error> for Error
From_bin_Error(err) == Deserialization(err)

(* ------------------------------ readers ------------------------------- *)
NoFail == [fails |-> FALSE]
FailAt(p, e) == [fails |-> TRUE, at |-> p, err |-> e]
\* R : io::Read -- data is what the stream holds; when fail.fails, the
\* stream delivers the first fail.at bytes and the next read raises fail.err
Reader(data, fail) == [data |-> data, fail |-> fail]

\* io::Read::read_exact of k bytes at offset pos, as bincode's IoReader calls
\* it; an io::Error becomes bincode's ErrorKind::Io
read_exact(r, pos, k) ==
  IF r.fail.fails /\ r.fail.at < pos + k /\ r.fail.at <= BLen(r.data)
  THEN [ok |-> FALSE, err |-> BinIo(r.fail.err), got |-> r.fail.at - pos]
  ELSE IF BLen(r.data) < pos + k
  THEN [ok |-> FALSE, err |-> BinIo(IoError("UnexpectedEof")),
        got |-> BLen(r.data) - pos]
  ELSE [ok |-> TRUE, val |-> BSlice(r.data, pos, k), got |-> k]

(* ------------------------------ decoder ------------------------------- *)
\* bincode Bounded::add : charge count bytes against what is left of the limit
read_bytes(budget, count) ==
  IF budget >= count THEN [ok |-> TRUE, left |-> budget - count]
  ELSE [ok |-> FALSE, left |-> budget]

\* struct Standard / Extended : the language tag and the rest of the value
Dict(variant, language, body) ==
  [variant |-> variant, language |-> language, body |-> body]

\* bincode::serialize of a dictionary
Encode(d) ==
  BCat(LEBytes(d.language, TagWidth),
       BCat(LEBytes(BLen(d.body), LenWidth), d.body))

Failed(e, pulled) == [ok |-> FALSE, err |-> e, pulled |-> pulled]

\* bin::config().limit(limit).deserialize_from(reader) into Self = variant
deserialize_from(variant, reader, limit) ==
    LET c1 == read_bytes(limit, TagWidth)
        r1 == read_exact(reader, 0, TagWidth)
    IN
    IF ~c1.ok THEN Failed(BinSizeLimit, 0)
    ELSE IF ~r1.ok THEN Failed(r1.err, r1.got)
    ELSE IF LEValue(r1.val, TagWidth) \notin Languages
    THEN Failed(BinCustom, TagWidth)
    ELSE
    LET c2 == read_bytes(c1.left, LenWidth)
        r2 == read_exact(reader, TagWidth, LenWidth)
    IN
    IF ~c2.ok THEN Failed(BinSizeLimit, TagWidth)
    ELSE IF ~r2.ok THEN Failed(r2.err, TagWidth + r2.got)
    ELSE
    LET n == LEValue(r2.val, LenWidth)
        c3 == read_bytes(c2.left, n)
        r3 == read_exact(reader, TagWidth + LenWidth, n)
    IN
    IF ~c3.ok THEN Failed(BinSizeLimit, TagWidth + LenWidth)
    ELSE IF ~r3.ok THEN Failed(r3.err, TagWidth + LenWidth + r3.got)
    ELSE [ok |-> TRUE,
          val |-> Dict(variant, LEValue(r1.val, TagWidth), r3.val),
          pulled |-> TagWidth + LenWidth + n]

(* ------------------------------- Load --------------------------------- *)
\* what one call did: the value returned, the stages run, the bytes pulled
Exec(ret, steps, pulled) == [ret |-> ret, steps |-> steps, pulled |-> pulled]

\* a from_reader that never compares the tag
from_reader_Unchecked(lang, variant, reader) ==
  LET de == deserialize_from(variant, reader, Limit) IN
    IF ~de.ok
    THEN Exec(Err(From_bin_Error(de.err)), <<"deserialize">>, de.pulled)
    ELSE Exec(Ok(de.val), <<"deserialize">>, de.pulled)

\* a from_reader that binds the two fields of the mismatch the other way round
from_reader_Swapped(lang, variant, reader) ==
  LET de == deserialize_from(variant, reader, Limit) IN
    IF ~de.ok
    THEN Exec(Err(From_bin_Error(de.err)), <<"deserialize">>, de.pulled)
    ELSE LET expected == de.val.language
             found == lang
         IN Exec(IF found # expected
                 THEN Err(LanguageMismatch(expected, found))
                 ELSE Ok(de.val),
                 <<"deserialize", "compare">>, de.pulled)

\* a from_reader that reports a failed decode as Error::Resource
from_reader_Resource(lang, variant, reader) ==
  LET de == deserialize_from(variant, reader, Limit) IN
    IF ~de.ok
    THEN Exec(Err(Resource), <<"deserialize">>, de.pulled)
    ELSE LET found == de.val.language
             expected == lang
         IN Exec(IF found # expected
                 THEN Err(LanguageMismatch(expected, found))
                 ELSE Ok(de.val),
                 <<"deserialize", "compare">>, de.pulled)

\* impl_load! :: from_reader, for Self = variant
from_reader(lang, variant, reader) ==
  LET de == deserialize_from(variant, reader, Limit) IN
    IF ~de.ok
    THEN Exec(Err(From_bin_Error(de.err)), <<"deserialize">>, de.pulled)
    ELSE LET found == de.val.language
             expected == lang
         IN Exec(IF found # expected
                 THEN Err(LanguageMismatch(expected, found))
                 ELSE Ok(de.val),
                 <<"deserialize", "compare">>, de.pulled)

\* an any_from_reader that insists on the first language
any_from_reader_Checked(variant, reader) == from_reader(0, variant, reader)

\* an any_from_reader built without .limit(5_000_000)
any_from_reader_NoLimit(variant, reader) ==
  LET de == deserialize_from(variant, reader, 2147483647) IN
    IF ~de.ok
    THEN Exec(Err(From_bin_Error(de.err)), <<"deserialize">>, de.pulled)
    ELSE Exec(Ok(de.val), <<"deserialize">>, de.pulled)

\* impl_load! :: any_from_reader, for Self = variant
any_from_reader(variant, reader) ==
  LET de == deserialize_from(variant, reader, Limit) IN
    IF ~de.ok
    THEN Exec(Err(From_bin_Error(de.err)), <<"deserialize">>, de.pulled)
    ELSE Exec(Ok(de.val), <<"deserialize">>, de.pulled)

\* File::open(path): the error it fails with, or the file's stream
OpenFails(e) == [opens |-> FALSE, err |-> e]
Opens(reader) == [opens |-> TRUE, reader |-> reader]

\* a from_path that goes on to decode an empty stream when the open fails
from_path_Lenient(lang, variant, file) ==
  LET inner == from_reader(lang, variant,
                           IF file.opens THEN file.reader ELSE Reader(<<>>, NoFail))
  IN Exec(inner.ret, <<"open">> \o inner.steps, inner.pulled)

\* Load :: from_path
from_path(lang, variant, file) ==
  IF ~file.opens
  THEN Exec(Err(From_io_Error(file.err)), <<"open">>, 0)
  ELSE LET inner == from_reader(lang, variant, file.reader)
       IN Exec(inner.ret, <<"open">> \o inner.steps, inner.pulled)

(* ------------------------------- inputs ------------------------------- *)
HeaderLen == TagWidth + LenWidth

RECURSIVE SeqsUpTo(_, _)
SeqsUpTo(S, n) ==
  IF n = 0 THEN {<<>>}
  ELSE LET shorter == SeqsUpTo(S, n - 1)
       IN shorter \cup {Append(q, x) : q \in shorter, x \in S}

\* dictionary bodies: every short one, and long ones that put the encoded
\* size just under, at and just over Limit
BodyBytes == {0, 1}
SmallBodies == {BFromSeq(q) : q \in SeqsUpTo(BodyBytes, MaxSmallLen)}
LargeBodies ==
  {Run(0, n) : n \in (Limit - HeaderLen - Slack) .. (Limit - HeaderLen + Slack)}
  \cup {BCat(Run(1, 1), Run(0, Limit - HeaderLen - 1)),
        BCat(Run(1, 1), Run(0, Limit - HeaderLen))}
Bodies == SmallBodies \cup LargeBodies
Dicts(variant) == {Dict(variant, l, b) : l \in Languages, b \in Bodies}

FullStreams == {Encode(d) : d \in Dicts("Standard")}
\* a complete encoding followed by more bytes
TrailingStreams ==
  {BCat(Encode(Dict("Standard", l, b)), Run(1, 1)) :
     l \in Languages, b \in SmallBodies}
Min(a, b) == IF a <= b THEN a ELSE b
Max(a, b) == IF a >= b THEN a ELSE b
\* where a stream is cut: anywhere near its start, and just before its end
CutPoints(s) ==
  (0 .. Min(BLen(s) - 1, HeaderLen + MaxSmallLen))
  \cup (Max(0, BLen(s) - Slack) .. (BLen(s) - 1))
\* the streams that end inside an encoding
TruncatedStreams == UNION {{BTake(s, k) : k \in CutPoints(s)} : s \in FullStreams}
\* a variant index that names no Language, an index with a high byte set,
\* a length prefix with a high byte set
CorruptStreams ==
  {BCat(LEBytes(NumLanguages, TagWidth), LEBytes(0, LenWidth)),
   BCat(BFromSeq(<<0, 0, 0, 1>>), LEBytes(0, LenWidth)),
   BCat(LEBytes(0, TagWidth), BFromSeq(<<1, 0, 0, 0, 1, 0, 0, 0, 1>>)),
   BCat(LEBytes(0, TagWidth), BFromSeq(<<0, 0, 0, 1, 0, 0, 0, 0>>))}
Streams == FullStreams \cup TrailingStreams \cup TruncatedStreams \cup CorruptStreams

\* where a stream's read fails: before and inside the tag, before and inside
\* the length prefix, before and inside the body, and at the stream's end
FailPoints(s) ==
  {Min(p, BLen(s)) :
     p \in {0, 1, TagWidth, TagWidth + 1, HeaderLen, HeaderLen + 1, BLen(s)}}
\* every stream read to its end without a failure, and the complete and
\* corrupt ones with a read failure at each of the points above
NoFailReaders == {Reader(s, NoFail) : s \in Streams}
FailingReaders ==
  UNION {{Reader(s, FailAt(p, IoError(k))) : p \in FailPoints(s), k \in ReadErrorKinds}
         : s \in FullStreams \cup CorruptStreams}
Readers == NoFailReaders \cup FailingReaders

\* what a path can lead to: nothing that opens, or a file holding a complete
\* or corrupt stream, or one whose reads fail
Files ==
  {OpenFails(IoError(k)) : k \in OpenErrorKinds}
  \cup {Opens(Reader(s, NoFail)) : s \in FullStreams \cup CorruptStreams}
  \cup {Opens(Reader(s, FailAt(p, IoError("Other")))) :
          s \in CorruptStreams, p \in {0, TagWidth, HeaderLen}}

IoErrors == {IoError(k) : k \in OpenErrorKinds \cup ReadErrorKinds \cup {"UnexpectedEof"}}
BinErrors == {BinIo(e) : e \in IoErrors} \cup {BinSizeLimit, BinCustom}
Errors ==
  {Deserialization(e) : e \in BinErrors} \cup {IO(e) : e \in IoErrors}
  \cup {LanguageMismatch(a, b) : a \in Languages, b \in Languages}
  \cup {Resource}

(* ---------------------------- state machine --------------------------- *)
VARIABLES call, ret, steps, pulled
vars == <<call, ret, steps, pulled>>

Call(op, lang, variant, input) ==
  [op |-> op, lang |-> lang, variant |-> variant, input |-> input]

Init ==
  /\ call = Call("none", None, None, None)
  /\ ret = None
  /\ steps = <<>>
  /\ pulled = 0

\* The loader keeps no state between calls, so a behaviour is one call:
\* an operation is taken from the initial state and its outcome recorded.
Idle == call.op = "none"

Returns(ex) ==
  /\ ret' = ex.ret
  /\ steps' = ex.steps
  /\ pulled' = ex.pulled

FromReader ==
  /\ Idle
  /\ \E lang \in Languages, variant \in Variants, reader \in Readers :
       /\ call' = Call("from_reader", Some(lang), Some(variant), reader)
       /\ Returns(from_reader(lang, variant, reader))

AnyFromReader ==
  /\ Idle
  /\ \E variant \in Variants, reader \in Readers :
       /\ call' = Call("any_from_reader", None, Some(variant), reader)
       /\ Returns(any_from_reader(variant, reader))

FromPath ==
  /\ Idle
  /\ \E lang \in Languages, variant \in Variants, file \in Files :
       /\ call' = Call("from_path", Some(lang), Some(variant), file)
       /\ Returns(from_path(lang, variant, file))

Source ==
  /\ Idle
  /\ \E e \in Errors :
       /\ call' = Call("source", None, None, e)
       /\ Returns(Exec(source(e), <<>>, 0))

FromIoError ==
  /\ Idle
  /\ \E e \in IoErrors :
       /\ call' = Call("From<io::Error>", None, None, e)
       /\ Returns(Exec(From_io_Error(e), <<>>, 0))

FromBinError ==
  /\ Idle
  /\ \E e \in BinErrors :
       /\ call' = Call("From<bin::Error>", None, None, e)
       /\ Returns(Exec(From_bin_Error(e), <<>>, 0))

Next ==
  \/ FromReader
  \/ AnyFromReader
  \/ FromPath
  \/ Source
  \/ FromIoError
  \/ FromBinError

Spec == Init /\ [][Next]_vars

TypeOK ==
  /\ call.op \in {"none", "from_reader", "any_from_reader", "from_path",
                  "source", "From<io::Error>", "From<bin::Error>"}
  /\ pulled \in Nat

(* ------------------------- reading the last call ---------------------- *)
IsStreamCall == call.op \in {"from_reader", "any_from_reader"}
IsLoadCall == call.op \in {"from_reader", "any_from_reader", "from_path"}
TheLang == call.lang.val
TheVariant == call.variant.val
TheReader == call.input

\* every dictionary with its encoding and the encoding's length
Encodings ==
  {[language |-> d.language, body |-> d.body,
    bytes |-> Encode(d), len |-> BLen(Encode(d))] : d \in Dicts("Standard")}
DictOf(x) == Dict(TheVariant, x.language, x.body)
\* the length of the stream of the last call
DataLen == BLen(TheReader.data)
\* the first n bytes of the stream arrive without a read failure
Delivers(n) == TheReader.fail.fails => TheReader.fail.at >= n
\* the stream starts with the whole encoding x
Holds(x) == x.len <= DataLen /\ BTake(TheReader.data, x.len) = x.bytes
\* the stream holds and delivers the encoding x, within the ceiling
Carries(x) == x.len <= Limit /\ Holds(x) /\ Delivers(x.len)
\* the stream ends inside the encoding x
CutShortOf(x) == DataLen < x.len /\ BTake(x.bytes, DataLen) = TheReader.data
IsErr(kind) == ~ret.ok /\ ret.err.kind = kind

(* ------------------------------- claims ------------------------------- *)
\* C1: from_reader(L, stream) returns Ok(dict) only with dict.language = L,
\* and whenever the stream holds the encoding of a dictionary tagged L (and
\* delivers it) the call returns Ok with that very dictionary.
C1_VerifiedLoadReturnsRequestedLanguage ==
  call.op = "from_reader" =>
    /\ ret.ok => ret.val.language = TheLang
    /\ \A x \in Encodings :
         (x.language = TheLang /\ Carries(x)) => ret = Ok(DictOf(x))

C1_Witness ==
  /\ call.op = "from_reader"
  /\ TheLang # 0
  /\ ret.ok
  /\ ret.val.language = TheLang
  /\ ret.val.body # <<>>
  /\ \E x \in Encodings : Carries(x) /\ ret.val = DictOf(x)

\* C2: from_reader(L1, stream) on a stream that decodes to a dictionary
\* tagged L2 # L1 returns Err(LanguageMismatch{expected: L1, found: L2}),
\* the fields not swapped, and no dictionary.
C2_MismatchNamesExpectedAndFound ==
  call.op = "from_reader" =>
    \A x \in Encodings :
      (x.language # TheLang /\ Carries(x)) =>
        /\ ~ret.ok
        /\ ret.err.kind = "LanguageMismatch"
        /\ ret.err.expected = Some(TheLang)
        /\ ret.err.found = Some(x.language)
        /\ ret.err.cause = None

C2_Witness ==
  /\ call.op = "from_reader"
  /\ ~ret.ok
  /\ ret.err = LanguageMismatch(TheLang, 2)
  /\ TheLang = 1
  /\ \E x \in Encodings : x.language = 2 /\ Carries(x)

\* the stream's own read failure is what stopped the decoder
StreamRaised ==
  LET de == deserialize_from(TheVariant, TheReader, Limit) IN
    /\ TheReader.fail.fails
    /\ ~de.ok
    /\ de.err = BinIo(TheReader.fail.err)

\* C3: in from_reader and any_from_reader an I/O failure raised by the
\* stream while bytes are pulled is returned as Error::IO, never as
\* Error::Deserialization.
C3_StreamFailureIsIO ==
  (IsStreamCall /\ StreamRaised) => IsErr("IO")

\* C4: for both variants and both stream entry points, a stream that ends
\* before the encoded dictionary is complete (cut at any length, the empty
\* stream included) yields Err(Deserialization): not IO, not
\* LanguageMismatch, not Ok.
C4_TruncatedIsDeserialization ==
  (IsStreamCall /\ TheReader.data \in TruncatedStreams) =>
    IsErr("Deserialization")

C4_Witness ==
  /\ call.op = "any_from_reader"
  /\ TheReader.fail = NoFail
  /\ DataLen > HeaderLen
  /\ \E x \in Encodings : x.len <= Limit /\ CutShortOf(x)
  /\ ret = Err(Deserialization(BinIo(IoError("UnexpectedEof"))))

\* C5: for both variants and both stream entry points, a well-formed payload
\* of more than 5,000,000 bytes fails with Err(Deserialization), its tag
\* matching or not, and the language comparison is not reached; a payload
\* within the ceiling is not rejected for its size.
C5_CeilingEnforcedWhileDecoding ==
  IsStreamCall =>
    \A x \in Encodings :
      Holds(x) =>
        /\ x.len > Limit =>
             /\ IsErr("Deserialization")
             /\ steps = <<"deserialize">>
             /\ TheReader.fail = NoFail => ret.err.cause = BinSizeLimit
        /\ x.len <= Limit =>
             ~(IsErr("Deserialization") /\ ret.err.cause = BinSizeLimit)

C5_Witness ==
  /\ call.op = "from_reader"
  /\ TheReader.fail = NoFail
  /\ \E x \in Encodings :
       /\ x.len = Limit + 1
       /\ x.language = TheLang
       /\ TheReader.data = x.bytes
  /\ ret = Err(Deserialization(BinSizeLimit))

\* C6: any_from_reader compares no language: a stream holding the encoding
\* of a dictionary for L, within the ceiling, yields Ok(dict) with
\* dict.language = L, and no input yields Err(LanguageMismatch).
C6_UnverifiedLoadIgnoresLanguage ==
  call.op = "any_from_reader" =>
    /\ ~IsErr("LanguageMismatch")
    /\ \A x \in Encodings :
         Carries(x) =>
           ret = Ok(DictOf(x)) /\ ret.val.language = x.language

C6_Witness ==
  /\ call.op = "any_from_reader"
  /\ ret.ok
  /\ ret.val.language = NumLanguages - 1
  /\ \E x \in Encodings : Carries(x) /\ x.language = NumLanguages - 1

\* C7: from_path(L, path) returns Err(IO) when the path cannot be opened,
\* with no deserialization and no language check attempted; when the open
\* succeeds it returns what from_reader(L, the file's contents) returns.
C7_PathLoadOpensThenDelegates ==
  call.op = "from_path" =>
    IF ~call.input.opens
    THEN /\ ret = Err(IO(call.input.err))
         /\ steps = <<"open">>
         /\ pulled = 0
    ELSE LET inner == from_reader(TheLang, TheVariant, call.input.reader) IN
           /\ ret = inner.ret
           /\ steps = <<"open">> \o inner.steps

C7_Witness ==
  /\ call.op = "from_path"
  /\ ~call.input.opens
  /\ call.input.err = IoError("NotFound")
  /\ ret = Err(IO(IoError("NotFound")))

\* C8: round trip: for a dictionary d of either variant with d.language = L
\* whose encoding is within the ceiling, from_reader(L, encode(d)) returns
\* Ok(d') with d' = d, tag and content.
C8_RoundTrip ==
  (call.op = "from_reader" /\ TheReader.fail = NoFail) =>
    \A x \in Encodings :
      (x.language = TheLang /\ TheReader.data = x.bytes /\ x.len <= Limit) =>
        /\ ret.ok
        /\ ret.val.language = x.language
        /\ ret.val.body = x.body
        /\ ret.val.variant = TheVariant
        /\ Encode(ret.val) = TheReader.data

C8_Witness ==
  /\ call.op = "from_reader"
  /\ TheReader.fail = NoFail
  /\ TheLang = 1
  /\ ret.ok
  /\ BLen(ret.val.body) = MaxSmallLen
  /\ TheReader.data = Encode(ret.val)

\* C9: source() gives the wrapped cause for Deserialization and IO and none
\* for LanguageMismatch and Resource; converting an io::Error gives Error::IO
\* holding it and converting a bin::Error gives Error::Deserialization
\* holding it.
C9_CausesAndConversions ==
  /\ call.op = "source" =>
       /\ call.input.kind \in {"Deserialization", "IO"} => ret = Some(call.input.cause)
       /\ call.input.kind \in {"LanguageMismatch", "Resource"} => ret = None
  /\ call.op = "From<io::Error>" => ret.kind = "IO" /\ ret.cause = call.input
  /\ call.op = "From<bin::Error>" =>
       ret.kind = "Deserialization" /\ ret.cause = call.input

C9_Witness ==
  /\ call.op = "source"
  /\ call.input.kind = "IO"
  /\ ret = Some(IoError("NotFound"))

\* C10: from_reader(L, s) is any_from_reader(s) followed by the comparison:
\* a failure of any_from_reader(s) is the failure of from_reader(L, s) for
\* every L, its Ok(d) becomes Ok(d) when d.language = L and
\* Err(LanguageMismatch) otherwise; LanguageMismatch comes only after a
\* complete decode, the stream is read once, and no entry point returns
\* Error::Resource.
C10_DecodeThenCheck ==
  /\ call.op = "from_reader" =>
       LET any == any_from_reader(TheVariant, TheReader).ret IN
         /\ ~any.ok => ret = any
         /\ any.ok =>
              IF any.val.language = TheLang THEN ret = any
              ELSE IsErr("LanguageMismatch")
         /\ IsErr("LanguageMismatch") =>
              any.ok /\ steps = <<"deserialize", "compare">>
         /\ pulled <= DataLen
  /\ IsLoadCall =>
       /\ ~IsErr("Resource")
       /\ Cardinality({i \in DOMAIN steps : steps[i] = "deserialize"}) <= 1

C10_Witness ==
  /\ call.op = "from_reader"
  /\ ~any_from_reader(TheVariant, TheReader).ret.ok
  /\ IsErr("Deserialization")
  /\ ret.err.cause = BinCustom

====
